---- MODULE Spec2Model ----
(***************************************************************************)
(* State-machine model of the two stateful engines of                      *)
(* AIO_begginer_projects_refined.py: TicTacToeGame (the grid game) and     *)
(* RockPaperScissorsGame (the choice game), as driven by GameSuite.run.    *)
(* The program is single-threaded and blocks on input(); an action is the  *)
(* code that runs from one input() (or random.choice) to the next.         *)
(* Raw input lines are sequences of one-character strings, so that         *)
(* int(), .lower() and .strip() are computed and not assumed.              *)
(***************************************************************************)
EXTENDS Integers, Sequences, FiniteSets, TLC

PLAYER_X == "X"
PLAYER_O == "O"
TIE_RESULT == "tie"
\* Python's None, for check_win's "no result" and unset locals.
NONE == "None"

VARIABLES
    pc,               \* the input() / random.choice the program is blocked at
    inp,              \* the raw line most recently read by input()
    board,            \* TicTacToeGame.board: board[row][col], rows/cols 0..2
    available_moves,  \* TicTacToeGame.available_moves (a list)
    current_player,   \* TicTacToeGame.current_player
    ai_mode,          \* local ai_mode of TicTacToeGame.play
    result,           \* local result of TicTacToeGame.play
    ai_move,          \* local ai_move of get_ai_move (0 before the first)
    placed,           \* history: marks written since the game began
    started_fresh,    \* history: the game began on a reset board with X to move
    require_names,    \* RockPaperScissorsGame.require_names
    two_player_mode,  \* RockPaperScissorsGame.two_player_mode
    has_names,        \* RockPaperScissorsGame.has_names
    player1_name,     \* RockPaperScissorsGame.player1_name
    player2_name,     \* RockPaperScissorsGame.player2_name
    scores,           \* RockPaperScissorsGame.scores
    player1_choice,   \* local player1_choice of play_round
    player2_choice,   \* local player2_choice of play_round
    outcome,          \* the verdict play_round printed for the round
    stack             \* return addresses of the suspended calls, innermost last

gridVars == <<board, available_moves, current_player, ai_mode, result,
              ai_move, placed, started_fresh>>

choiceVars == <<require_names, two_player_mode, has_names, player1_name,
                player2_name, scores, player1_choice, player2_choice, outcome,
                stack>>

vars == <<pc, inp, gridVars, choiceVars>>

-----------------------------------------------------------------------------
(* Text helpers: str.strip(), str.lower(), int() on a line of input.       *)

\* The line `inp` holds before any input() has returned.
NoInput == <<"<none>">>

IsSpace(c) == c = " "

RECURSIVE LStrip(_)
LStrip(s) ==
    IF Len(s) > 0 /\ IsSpace(Head(s)) THEN LStrip(Tail(s)) ELSE s

RECURSIVE RStrip(_)
RStrip(s) ==
    IF Len(s) > 0 /\ IsSpace(s[Len(s)])
    THEN RStrip(SubSeq(s, 1, Len(s) - 1))
    ELSE s

Strip(s) == RStrip(LStrip(s))

UpperLetters ==
    <<"A", "B", "C", "D", "E", "F", "G", "H", "I", "J", "K", "L", "M",
      "N", "O", "P", "Q", "R", "S", "T", "U", "V", "W", "X", "Y", "Z">>

LowerLetters ==
    <<"a", "b", "c", "d", "e", "f", "g", "h", "i", "j", "k", "l", "m",
      "n", "o", "p", "q", "r", "s", "t", "u", "v", "w", "x", "y", "z">>

LowerChar(c) ==
    IF \E i \in 1..Len(UpperLetters) : UpperLetters[i] = c
    THEN LowerLetters[CHOOSE i \in 1..Len(UpperLetters) : UpperLetters[i] = c]
    ELSE c

RECURSIVE Lower(_)
Lower(s) ==
    IF Len(s) = 0 THEN <<>> ELSE <<LowerChar(Head(s))>> \o Lower(Tail(s))

DigitChars == {"0", "1", "2", "3", "4", "5", "6", "7", "8", "9"}

DigitVal(c) ==
    CASE c = "0" -> 0 [] c = "1" -> 1 [] c = "2" -> 2 [] c = "3" -> 3
      [] c = "4" -> 4 [] c = "5" -> 5 [] c = "6" -> 6 [] c = "7" -> 7
      [] c = "8" -> 8 [] c = "9" -> 9

IsSign(c) == c \in {"+", "-"}

\* The digits of an integer literal after whitespace and sign are dropped.
IntBody(s) ==
    LET t == Strip(s)
    IN  IF Len(t) > 0 /\ IsSign(Head(t)) THEN Tail(t) ELSE t

\* int(s) does not raise ValueError.
IsIntLiteral(s) ==
    /\ Len(IntBody(s)) > 0
    /\ \A i \in 1..Len(IntBody(s)) : IntBody(s)[i] \in DigitChars

RECURSIVE DigitsValue(_)
DigitsValue(d) ==
    IF Len(d) = 0 THEN 0
    ELSE 10 * DigitsValue(SubSeq(d, 1, Len(d) - 1)) + DigitVal(d[Len(d)])

\* int(s), for a line on which int() does not raise.
IntOf(s) ==
    LET t == Strip(s)
    IN  IF Len(t) > 0 /\ Head(t) = "-"
        THEN 0 - DigitsValue(IntBody(s))
        ELSE DigitsValue(IntBody(s))

\* x in lst
InList(x, lst) == \E i \in 1..Len(lst) : lst[i] = x

\* lst.remove(x): drops the first occurrence.
RECURSIVE ListRemove(_, _)
ListRemove(lst, x) ==
    IF Len(lst) = 0 THEN <<>>
    ELSE IF Head(lst) = x THEN Tail(lst)
    ELSE <<Head(lst)>> \o ListRemove(Tail(lst), x)

-----------------------------------------------------------------------------
(* get_yes_no_input                                                        *)

YesWords == {<<"y">>, <<"y", "e", "s">>}
NoWords == {<<"n">>, <<"n", "o">>}

\* The lines typed at a yes/no prompt.
YesNoInputs ==
    { <<"y">>, <<"Y", "E", "S", " ">>, <<"n">>, <<" ", "N", "o">>,
      <<"o", "k">> }

YesNoResponse(line) == Lower(Strip(line))

IsYes(line) == YesNoResponse(line) \in YesWords
IsNo(line) == YesNoResponse(line) \in NoWords

-----------------------------------------------------------------------------
(* TicTacToeGame                                                           *)

Rows == 0..2
Cols == 0..2

\* str(i) for the position labels.
Str(i) == <<"1", "2", "3", "4", "5", "6", "7", "8", "9">>[i]

Marks == {PLAYER_X, PLAYER_O}

create_board == [r \in Rows |-> [c \in Cols |-> Str(3 * r + c + 1)]]

\* list(range(1, 10))
AllMoves == <<1, 2, 3, 4, 5, 6, 7, 8, 9>>

\* divmod(move - 1, 3)
RowOf(move) == (move - 1) \div 3
ColOf(move) == (move - 1) % 3

\* self.board[row][col] = mark
PlaceMark(b, move, mark) == [b EXCEPT ![RowOf(move)][ColOf(move)] = mark]

\* The wrong check: the anti-diagonal compares (0,2), (1,1), (2,2).
check_win_skewed(b, moves) ==
    IF \E i \in Rows : b[i][0] = b[i][1] /\ b[i][1] = b[i][2]
    THEN LET i == CHOOSE k \in Rows :
                    /\ b[k][0] = b[k][1] /\ b[k][1] = b[k][2]
                    /\ \A j \in Rows :
                         (b[j][0] = b[j][1] /\ b[j][1] = b[j][2]) => k <= j
         IN  b[i][0]
    ELSE IF \E i \in Cols : b[0][i] = b[1][i] /\ b[1][i] = b[2][i]
    THEN LET i == CHOOSE k \in Cols :
                    /\ b[0][k] = b[1][k] /\ b[1][k] = b[2][k]
                    /\ \A j \in Cols :
                         (b[0][j] = b[1][j] /\ b[1][j] = b[2][j]) => k <= j
         IN  b[0][i]
    ELSE IF b[0][0] = b[1][1] /\ b[1][1] = b[2][2] THEN b[0][0]
    ELSE IF b[0][2] = b[1][1] /\ b[1][1] = b[2][2] THEN b[0][2]
    ELSE IF Len(moves) = 0 THEN TIE_RESULT
    ELSE NONE

\* The wrong check: the tie test comes before the line tests.
check_win_tie_first(b, moves) ==
    IF Len(moves) = 0 THEN TIE_RESULT
    ELSE IF \E i \in Rows : b[i][0] = b[i][1] /\ b[i][1] = b[i][2]
    THEN LET i == CHOOSE k \in Rows :
                    /\ b[k][0] = b[k][1] /\ b[k][1] = b[k][2]
                    /\ \A j \in Rows :
                         (b[j][0] = b[j][1] /\ b[j][1] = b[j][2]) => k <= j
         IN  b[i][0]
    ELSE IF \E i \in Cols : b[0][i] = b[1][i] /\ b[1][i] = b[2][i]
    THEN LET i == CHOOSE k \in Cols :
                    /\ b[0][k] = b[1][k] /\ b[1][k] = b[2][k]
                    /\ \A j \in Cols :
                         (b[0][j] = b[1][j] /\ b[1][j] = b[2][j]) => k <= j
         IN  b[0][i]
    ELSE IF b[0][0] = b[1][1] /\ b[1][1] = b[2][2] THEN b[0][0]
    ELSE IF b[0][2] = b[1][1] /\ b[1][1] = b[2][0] THEN b[0][2]
    ELSE NONE

\* The wrong check: a complete column i returns board[i][0], not board[0][i].
check_win_wrong_cell(b, moves) ==
    IF \E i \in Rows : b[i][0] = b[i][1] /\ b[i][1] = b[i][2]
    THEN LET i == CHOOSE k \in Rows :
                    /\ b[k][0] = b[k][1] /\ b[k][1] = b[k][2]
                    /\ \A j \in Rows :
                         (b[j][0] = b[j][1] /\ b[j][1] = b[j][2]) => k <= j
         IN  b[i][0]
    ELSE IF \E i \in Cols : b[0][i] = b[1][i] /\ b[1][i] = b[2][i]
    THEN LET i == CHOOSE k \in Cols :
                    /\ b[0][k] = b[1][k] /\ b[1][k] = b[2][k]
                    /\ \A j \in Cols :
                         (b[0][j] = b[1][j] /\ b[1][j] = b[2][j]) => k <= j
         IN  b[i][0]
    ELSE IF b[0][0] = b[1][1] /\ b[1][1] = b[2][2] THEN b[0][0]
    ELSE IF b[0][2] = b[1][1] /\ b[1][1] = b[2][0] THEN b[0][2]
    ELSE IF Len(moves) = 0 THEN TIE_RESULT
    ELSE NONE

\* check_win: rows 0..2 in order, then columns 0..2 in order, then the two
\* diagonals, then the tie test; the first match is returned.
check_win(b, moves) ==
    IF \E i \in Rows : b[i][0] = b[i][1] /\ b[i][1] = b[i][2]
    THEN LET i == CHOOSE k \in Rows :
                    /\ b[k][0] = b[k][1] /\ b[k][1] = b[k][2]
                    /\ \A j \in Rows :
                         (b[j][0] = b[j][1] /\ b[j][1] = b[j][2]) => k <= j
         IN  b[i][0]
    ELSE IF \E i \in Cols : b[0][i] = b[1][i] /\ b[1][i] = b[2][i]
    THEN LET i == CHOOSE k \in Cols :
                    /\ b[0][k] = b[1][k] /\ b[1][k] = b[2][k]
                    /\ \A j \in Cols :
                         (b[0][j] = b[1][j] /\ b[1][j] = b[2][j]) => k <= j
         IN  b[0][i]
    ELSE IF b[0][0] = b[1][1] /\ b[1][1] = b[2][2] THEN b[0][0]
    ELSE IF b[0][2] = b[1][1] /\ b[1][1] = b[2][0] THEN b[0][2]
    ELSE IF Len(moves) = 0 THEN TIE_RESULT
    ELSE NONE

\* `if result:` -- None is falsy, every returned string is truthy.
Truthy(r) == r # NONE

\* The wrong switch: the player is left as it is.
switch_player_stuck(p) == p

\* switch_player
switch_player(p) == IF p = PLAYER_X THEN PLAYER_O ELSE PLAYER_X

\* The wrong reset: the moves are restored as list(range(1, 9)).
reset_game_short_range ==
    [available_moves |-> SubSeq(AllMoves, 1, 8),
     current_player |-> PLAYER_X,
     board |-> create_board]

\* reset_game: the three fields it assigns.
reset_game ==
    [available_moves |-> AllMoves,
     current_player |-> PLAYER_X,
     board |-> create_board]

\* The wrong test: any position 1..9 is accepted, occupied or not.
MoveAccepted_in_range(line, moves) ==
    IsIntLiteral(line) /\ IntOf(line) \in 1..9

\* get_user_move: int(input(...)) does not raise and the move is available.
MoveAccepted(line, moves) ==
    IsIntLiteral(line) /\ InList(IntOf(line), moves)

\* The wrong write: row and column are exchanged.
ApplyMove_transposed(b, move, mark) ==
    [b EXCEPT ![ColOf(move)][RowOf(move)] = mark]

\* The board after get_user_move / get_ai_move write `mark` at `move`.
ApplyMove(b, move, mark) == PlaceMark(b, move, mark)

\* The wrong removal: the last element is dropped, like lst.pop().
TakeMove_pop(moves, move) == SubSeq(moves, 1, Len(moves) - 1)

\* available_moves after self.available_moves.remove(move).
TakeMove(moves, move) == ListRemove(moves, move)

\* The board is as reset_game leaves the object.
IsFresh ==
    /\ board = create_board
    /\ available_moves = AllMoves
    /\ current_player = PLAYER_X

\* The lines typed at "Player ..., enter your move: ".
MoveInputs ==
    { <<"1">>, <<"2">>, <<"3">>, <<"4">>, <<"5">>, <<"6">>, <<"7">>,
      <<"8">>, <<"9">>, <<" ", "5">>, <<"1", "0">>, <<"-", "1">>, <<"x">> }

\* The lines typed at the launcher's "Enter your choice: ".
LauncherInputs ==
    { <<"1">>, <<" ", "1", " ">>, <<"2">>, <<"8">>, <<"9">> }

GameKeys == { <<"1">>, <<"2">>, <<"3">>, <<"4">>, <<"5">>, <<"6">>, <<"7">> }

-----------------------------------------------------------------------------
(* RockPaperScissorsGame                                                   *)

ROCK == "rock"
PAPER == "paper"
SCISSORS == "scissors"

Choices == {ROCK, PAPER, SCISSORS}

\* The keys of self.scores.
ScoreKeys == {"Player 1", "Player 2"}

\* The default names, as lines of characters like every typed name.
PLAYER_1 == <<"P", "l", "a", "y", "e", "r", " ", "1">>
PLAYER_2 == <<"P", "l", "a", "y", "e", "r", " ", "2">>
THE_BOT == <<"T", "h", "e", " ", "B", "o", "t">>

\* self.menu_choices
menu_choices == { <<"m", "e", "n", "u">>,
                  <<"m", "a", "i", "n", " ", "m", "e", "n", "u">> }

\* The keys of self.valid_choices, per value.
RockWords == { <<"1">>,
               <<"r", "o", "c", "k">>,
               <<"r">> }
PaperWords == { <<"2">>,
                <<"p", "a", "p", "e", "r">>,
                <<"p">> }
ScissorsWords == { <<"3">>,
                   <<"s", "c", "i", "s", "s", "o", "r", "s">>,
                   <<"s">> }

\* choice in self.valid_choices
IsValidChoice(choice) == choice \in RockWords \cup PaperWords \cup ScissorsWords

\* self.valid_choices[choice]
valid_choices(choice) ==
    IF choice \in RockWords THEN ROCK
    ELSE IF choice \in PaperWords THEN PAPER
    ELSE SCISSORS

\* main_menu's option lists.
NewGameWords == { <<"1">>,
                  <<"n", "e", "w", " ", "g", "a", "m", "e">>,
                  <<"n">> }
SettingsWords == { <<"2">>,
                   <<"s", "e", "t", "t", "i", "n", "g", "s">>,
                   <<"s">> }
BackWords == { <<"3">>,
               <<"b", "a", "c", "k", " ", "t", "o", " ", "m", "a", "i", "n", " ", "m", "e", "n", "u">>,
               <<"b">> }
    \cup menu_choices

\* after_game_menu's option lists (its third is BackWords).
PlayAgainWords == { <<"1">>,
                    <<"p", "l", "a", "y", " ", "a", "g", "a", "i", "n">>,
                    <<"p">> }
GameMenuWords == { <<"2">>,
                   <<"r", "o", "c", "k", "-", "p", "a", "p", "e", "r", "-", "s", "c", "i", "s", "s", "o", "r", "s", " ", "m", "e", "n", "u">>,
                   <<"r">> }

\* settings_menu's option lists.
RequireNamesWords == { <<"1">>,
                       <<"r", "e", "q", "u", "i", "r", "e", " ", "n", "a", "m", "e", "s">>,
                       <<"n">> }
TwoPlayerWords == { <<"2">>,
                    <<"t", "w", "o", " ", "p", "l", "a", "y", "e", "r", " ", "m", "o", "d", "e">>,
                    <<"t">> }
ResetWords == { <<"3">>,
                <<"r", "e", "s", "e", "t", " ", "t", "o", " ", "d", "e", "f", "a", "u", "l", "t", " ", "s", "e", "t", "t", "i", "n", "g", "s">>,
                <<"d">> }
SettingsBackWords == { <<"4">>,
                       <<"b", "a", "c", "k", " ", "t", "o", " ", "r", "o", "c", "k", "-", "p", "a", "p", "e", "r", "-", "s", "c", "i", "s", "s", "o", "r", "s", " ", "m", "e", "n", "u">>,
                       <<"b">> }

\* The lines typed at main_menu's prompt.
MainMenuInputs == { <<"1">>,
                    <<"2">>,
                    <<"3">>,
                    <<"M", "e", "n", "u">>,
                    <<"x">> }

\* The lines typed at settings_menu's prompt.
SettingsInputs == { <<"1">>,
                    <<"T", " ">>,
                    <<"3">>,
                    <<"4">>,
                    <<"m", "e", "n", "u">> }

\* The lines typed at after_game_menu's prompt.
AfterGameInputs == { <<"1">>,
                     <<"2">>,
                     <<"3">>,
                     <<"m", "a", "i", "n", " ", "m", "e", "n", "u">>,
                     <<"x">> }

\* The lines typed at get_player_choice's prompt.
ChoiceInputs == { <<"1">>,
                  <<"P", "a", "p", "e", "r">>,
                  <<"s", " ">>,
                  <<"m", "e", "n", "u">>,
                  <<"x">> }

\* The lines typed as a name.
NameInputs == { <<" ", "B", "o", " ">>,
                <<"M", "E", "N", "U">> }

\* A score at which the model starts no further round.
MaxScore == 2

\* The wrong table: (paper, scissors) stands where (paper, rock) belongs.
RoundOutcome_wrong_pair(c1, c2) ==
    IF c1 = c2 THEN "tie"
    ELSE IF <<c1, c2>> \in {<<ROCK, SCISSORS>>, <<SCISSORS, PAPER>>,
                            <<PAPER, SCISSORS>>}
    THEN "player1 wins"
    ELSE "player2 wins"

\* play_round's verdict (lines 313-322): which message it prints.
RoundOutcome(c1, c2) ==
    IF c1 = c2 THEN "tie"
    ELSE IF <<c1, c2>> \in {<<ROCK, SCISSORS>>, <<SCISSORS, PAPER>>,
                            <<PAPER, ROCK>>}
    THEN "player1 wins"
    ELSE "player2 wins"

\* The wrong update: a tie adds 1 to both scores.
ScoresAfter_tie_counts(sc, verdict) ==
    IF verdict = "player1 wins"
    THEN [sc EXCEPT !["Player 1"] = @ + 1]
    ELSE IF verdict = "player2 wins"
    THEN [sc EXCEPT !["Player 2"] = @ + 1]
    ELSE [k \in ScoreKeys |-> sc[k] + 1]

\* self.scores after the verdict's branch has run.
ScoresAfter(sc, verdict) ==
    IF verdict = "player1 wins"
    THEN [sc EXCEPT !["Player 1"] = @ + 1]
    ELSE IF verdict = "player2 wins"
    THEN [sc EXCEPT !["Player 2"] = @ + 1]
    ELSE sc

\* reset_settings: the five fields it assigns.
reset_settings ==
    [require_names |-> TRUE,
     two_player_mode |-> FALSE,
     has_names |-> FALSE,
     player1_name |-> PLAYER_1,
     player2_name |-> THE_BOT]

-----------------------------------------------------------------------------
(* The state after GameSuite() is constructed and run() shows its menu.    *)

GridInit ==
    /\ board = reset_game.board
    /\ available_moves = reset_game.available_moves
    /\ current_player = reset_game.current_player
    /\ ai_mode = FALSE
    /\ result = NONE
    /\ ai_move = 0
    /\ placed = <<>>
    /\ started_fresh = TRUE

\* RockPaperScissorsGame.__init__
ChoiceInit ==
    /\ require_names = reset_settings.require_names
    /\ two_player_mode = reset_settings.two_player_mode
    /\ has_names = reset_settings.has_names
    /\ player1_name = reset_settings.player1_name
    /\ player2_name = reset_settings.player2_name
    /\ scores = [k \in ScoreKeys |-> 0]
    /\ player1_choice = NONE
    /\ player2_choice = NONE
    /\ outcome = NONE
    /\ stack = <<>>

Init ==
    /\ pc = "launcher"
    /\ inp = NoInput
    /\ GridInit
    /\ ChoiceInit

-----------------------------------------------------------------------------
(* GameSuite.run                                                           *)

\* choice "1": TicTacToeGame.play() is entered on the one shared instance;
\* it prints the title and asks for the opponent mode.  Nothing is reset.
RunTicTacToe(line) ==
    /\ pc = "launcher"
    /\ Strip(line) = <<"1">>
    /\ inp' = line
    /\ pc' = "ttt_mode"
    /\ ai_mode' = FALSE
    /\ result' = NONE
    /\ ai_move' = 0
    /\ placed' = <<>>
    /\ started_fresh' = IsFresh
    /\ UNCHANGED <<board, available_moves, current_player>>
    /\ UNCHANGED choiceVars

\* a choice among "1".."7" other than `key`: another engine's play() runs
\* and returns; the engines share no state.
RunOtherGame(line, key) ==
    /\ pc = "launcher"
    /\ Strip(line) \in GameKeys \ {key}
    /\ inp' = line
    /\ pc' = "launcher"
    /\ UNCHANGED <<gridVars, choiceVars>>

\* choice "8"
QuitSuite(line) ==
    /\ pc = "launcher"
    /\ Strip(line) = <<"8">>
    /\ inp' = line
    /\ pc' = "quit"
    /\ UNCHANGED <<gridVars, choiceVars>>

\* any other choice: "Invalid option", then "Press Enter to continue..."
InvalidOption(line) ==
    /\ pc = "launcher"
    /\ Strip(line) \notin GameKeys \cup {<<"8">>}
    /\ inp' = line
    /\ pc' = "launcher_enter"
    /\ UNCHANGED <<gridVars, choiceVars>>

PressEnter(line) ==
    /\ pc = "launcher_enter"
    /\ inp' = line
    /\ pc' = "launcher"
    /\ UNCHANGED <<gridVars, choiceVars>>

-----------------------------------------------------------------------------
(* TicTacToeGame.play                                                      *)

\* ai_mode = get_yes_no_input("Do you want to play against the AI?")
AskAiMode(line) ==
    /\ pc = "ttt_mode"
    /\ inp' = line
    /\ IF IsYes(line) THEN ai_mode' = TRUE /\ pc' = "ttt_move"
       ELSE IF IsNo(line) THEN ai_mode' = FALSE /\ pc' = "ttt_move"
       ELSE UNCHANGED <<ai_mode, pc>>
    /\ UNCHANGED <<board, available_moves, current_player, result, ai_move,
                   placed, started_fresh>>
    /\ UNCHANGED choiceVars

\* What play() does after a placement has produced board b and moves m:
\* check_win, then the rematch prompt or switch_player and the next mover.
AfterPlacement(b, m, automated) ==
    LET r == check_win(b, m)
    IN  /\ board' = b
        /\ available_moves' = m
        /\ result' = r
        /\ placed' = Append(placed, current_player)
        /\ IF Truthy(r)
           THEN /\ pc' = "ttt_again"
                /\ current_player' = current_player
           ELSE /\ current_player' = switch_player(current_player)
                /\ pc' = IF ~automated /\ ai_mode /\ Len(m) > 0
                         THEN "ttt_ai"
                         ELSE "ttt_move"
        /\ UNCHANGED <<ai_mode, started_fresh>>

\* get_user_move, one pass of its loop, and play() up to the next prompt.
GetUserMove(line) ==
    /\ pc = "ttt_move"
    /\ inp' = line
    /\ IF MoveAccepted(line, available_moves)
       THEN /\ AfterPlacement(
                   ApplyMove(board, IntOf(line), current_player),
                   TakeMove(available_moves, IntOf(line)), FALSE)
            /\ ai_move' = 0
       ELSE UNCHANGED <<pc, gridVars>>
    /\ UNCHANGED choiceVars

\* get_ai_move: random.choice(self.available_moves), and play() up to the
\* next prompt.  It is called only with a non-empty list (line 169).
GetAiMove ==
    /\ pc = "ttt_ai"
    /\ \E i \in 1..Len(available_moves) :
         /\ ai_move' = available_moves[i]
         /\ AfterPlacement(
                ApplyMove(board, available_moves[i], current_player),
                TakeMove(available_moves, available_moves[i]), TRUE)
    /\ UNCHANGED <<inp, choiceVars>>

\* get_yes_no_input("Would you like to play again?"): reset_game and
\* continue, or break, which returns to GameSuite.run.
AskPlayAgain(line) ==
    /\ pc = "ttt_again"
    /\ inp' = line
    /\ IF IsYes(line)
       THEN /\ board' = reset_game.board
            /\ available_moves' = reset_game.available_moves
            /\ current_player' = reset_game.current_player
            /\ pc' = "ttt_move"
            /\ placed' = <<>>
            /\ started_fresh' = TRUE
            /\ UNCHANGED <<ai_mode, result, ai_move>>
       ELSE IF IsNo(line)
       THEN /\ pc' = "launcher"
            /\ ai_mode' = FALSE
            /\ result' = NONE
            /\ UNCHANGED <<board, available_moves, current_player, ai_move,
                           placed, started_fresh>>
       ELSE UNCHANGED <<pc, gridVars>>
    /\ UNCHANGED choiceVars

Next ==
    \/ \E line \in LauncherInputs :
         \/ RunTicTacToe(line)
         \/ RunOtherGame(line, <<"1">>)
         \/ QuitSuite(line)
         \/ InvalidOption(line)
    \/ \E line \in {<<>>} : PressEnter(line)
    \/ \E line \in YesNoInputs : AskAiMode(line)
    \/ \E line \in MoveInputs : GetUserMove(line)
    \/ GetAiMove
    \/ \E line \in YesNoInputs : AskPlayAgain(line)

Spec == Init /\ [][Next]_vars

-----------------------------------------------------------------------------
(* RockPaperScissorsGame.play                                              *)
(* The menus call one another and themselves and never loop, so every menu *)
(* visit is one more Python frame.  `stack` holds the return address       *)
(* "function:line" of every suspended call.  A call made when the stack is *)
(* full raises RecursionError, which nothing in the class catches: it      *)
(* reaches the handler at the end of the file and the program ends.        *)

\* Python's bool results, as strings like every other returned value.
PY_TRUE == "True"
PY_FALSE == "False"

\* The depth at which a further call raises RecursionError (the
\* interpreter's limit is 1000 frames; the model scales it down).
RecursionLimit == 6

Returning(value) ==
    [returns |-> TRUE, value |-> value, push |-> <<>>, pc |-> NONE]

Going(push, at) ==
    [returns |-> FALSE, value |-> NONE, push |-> push, pc |-> at]

\* The wrong play_round: the `is None` test after player 2's choice is
\* missing, so the round goes on to its verdict.
Continuation_no_none_test(addr, value) ==
    IF addr = "pre_game:267"
    THEN IF value = PY_FALSE
         THEN Returning(NONE)
         ELSE Going(<<"pre_game:270", "play_round:294">>, "rps_choice1")
    ELSE IF addr \in {"get_player_names:247", "get_player_names:253"}
    THEN Returning(PY_FALSE)
    ELSE IF addr = "play_round:294"
    THEN Going(IF two_player_mode THEN <<"play_round:301">> ELSE <<>>,
               IF two_player_mode THEN "rps_choice2" ELSE "rps_bot")
    ELSE IF addr = "play_round:301"
    THEN Going(<<>>, "rps_round_enter")
    ELSE Returning(NONE)

\* The wrong pre_game: the result of get_player_names is ignored and
\* play_round is called in any case.
Continuation_ignores_names(addr, value) ==
    IF addr = "pre_game:267"
    THEN Going(<<"pre_game:270", "play_round:294">>, "rps_choice1")
    ELSE IF addr \in {"get_player_names:247", "get_player_names:253"}
    THEN Returning(PY_FALSE)
    ELSE IF addr = "play_round:294"
    THEN IF value = NONE
         THEN Returning(NONE)
         ELSE Going(IF two_player_mode THEN <<"play_round:301">> ELSE <<>>,
                    IF two_player_mode THEN "rps_choice2" ELSE "rps_bot")
    ELSE IF addr = "play_round:301"
    THEN IF value = NONE
         THEN Returning(NONE)
         ELSE Going(<<>>, "rps_round_enter")
    ELSE Returning(NONE)

\* The wrong after_game_menu: after the nested play_round() returns the
\* menu is shown again.
Continuation_menu_again(addr, value) ==
    IF addr = "pre_game:267"
    THEN IF value = PY_FALSE
         THEN Returning(NONE)
         ELSE Going(<<"pre_game:270", "play_round:294">>, "rps_choice1")
    ELSE IF addr \in {"get_player_names:247", "get_player_names:253"}
    THEN Returning(PY_FALSE)
    ELSE IF addr = "play_round:294"
    THEN IF value = NONE
         THEN Returning(NONE)
         ELSE Going(IF two_player_mode THEN <<"play_round:301">> ELSE <<>>,
                    IF two_player_mode THEN "rps_choice2" ELSE "rps_bot")
    ELSE IF addr = "play_round:301"
    THEN IF value = NONE
         THEN Returning(NONE)
         ELSE Going(<<>>, "rps_round_enter")
    ELSE IF addr = "after_game_menu:347"
    THEN Going(<<"after_game_menu:354">>, "rps_after")
    ELSE Returning(NONE)

\* What the caller suspended at `addr` does when its callee returns `value`:
\* it returns in turn, or it goes on to its next prompt, calling on the way.
\*   pre_game:267             if not self.get_player_names(): return
\*   get_player_names:247/253 self.main_menu(); return False
\*   get_player_choice:284    self.main_menu(); return None
\*   play_round:294/301       if playerN_choice is None: return
\*   every other call         is the last statement of its function
\* ("settings_menu:self" stands for lines 372, 376, 379 and 384.)
Continuation(addr, value) ==
    IF addr = "pre_game:267"
    THEN IF value = PY_FALSE
         THEN Returning(NONE)
         ELSE Going(<<"pre_game:270", "play_round:294">>, "rps_choice1")
    ELSE IF addr \in {"get_player_names:247", "get_player_names:253"}
    THEN Returning(PY_FALSE)
    ELSE IF addr = "get_player_choice:284"
    THEN Returning(NONE)
    ELSE IF addr = "play_round:294"
    THEN IF value = NONE
         THEN Returning(NONE)
         ELSE Going(IF two_player_mode THEN <<"play_round:301">> ELSE <<>>,
                    IF two_player_mode THEN "rps_choice2" ELSE "rps_bot")
    ELSE IF addr = "play_round:301"
    THEN IF value = NONE
         THEN Returning(NONE)
         ELSE Going(<<>>, "rps_round_enter")
    ELSE Returning(NONE)

\* The program ended by the handler of lines 681-683.
Crashed == [pc |-> "crashed", stack |-> <<>>]

\* Calls nested on top of stk, the innermost blocking at prompt `at`.
Enter(stk, push, at) ==
    IF Len(stk) + Len(push) > RecursionLimit
    THEN Crashed
    ELSE [pc |-> at, stack |-> stk \o push]

\* The running function returns `value`: callers resume innermost first,
\* until one blocks at a prompt or play() has returned to GameSuite.run.
RECURSIVE Unwind(_, _)
Unwind(stk, value) ==
    IF Len(stk) = 0
    THEN [pc |-> "launcher", stack |-> <<>>]
    ELSE LET c == Continuation(stk[Len(stk)], value)
             rest == SubSeq(stk, 1, Len(stk) - 1)
         IN  IF c.returns
             THEN Unwind(rest, c.value)
             ELSE Enter(rest, c.push, c.pc)

\* The fields no menu action writes.
roundVars == <<scores, player1_choice, player2_choice, outcome>>
settingVars == <<require_names, two_player_mode, has_names, player1_name,
                 player2_name>>

\* choice "2": play() calls main_menu() on the one shared instance.
RunRockPaperScissors(line) ==
    /\ pc = "launcher"
    /\ Strip(line) = <<"2">>
    /\ inp' = line
    /\ pc' = Enter(<<>>, <<"play:388">>, "rps_main").pc
    /\ stack' = Enter(<<>>, <<"play:388">>, "rps_main").stack
    /\ UNCHANGED <<gridVars, settingVars, roundVars>>

\* Where pre_game() blocks first: get_player_names or play_round.
PreGamePc == IF require_names /\ ~has_names THEN "rps_name1" ELSE "rps_choice1"

\* The calls between main_menu's prompt and pre_game's first prompt.
PreGameCalls ==
    IF require_names /\ ~has_names
    THEN <<"main_menu:233", "pre_game:267">>
    ELSE <<"main_menu:233", "pre_game:270", "play_round:294">>

\* main_menu
MainMenu(line) ==
    /\ pc = "rps_main"
    /\ inp' = line
    /\ LET choice == Lower(Strip(line))
           to == IF choice \in NewGameWords
                 THEN Enter(stack, PreGameCalls, PreGamePc)
                 ELSE IF choice \in SettingsWords
                 THEN Enter(stack, <<"main_menu:235">>, "rps_settings")
                 ELSE IF choice \in BackWords
                 THEN Unwind(stack, NONE)
                 ELSE Enter(stack, <<"main_menu:240">>, "rps_main")
       IN  pc' = to.pc /\ stack' = to.stack
    /\ UNCHANGED <<gridVars, settingVars, roundVars>>

\* get_player_names: the first prompt.
PlayerOneName(line) ==
    /\ pc = "rps_name1"
    /\ inp' = line
    /\ player1_name' = Strip(line)
    /\ LET to == IF Lower(Strip(line)) \in menu_choices
                 THEN Enter(stack, <<"get_player_names:247">>, "rps_main")
                 ELSE [pc |-> IF two_player_mode THEN "rps_name2"
                              ELSE "rps_names_enter",
                       stack |-> stack]
       IN  pc' = to.pc /\ stack' = to.stack
    /\ UNCHANGED <<require_names, two_player_mode, has_names, player2_name,
                   roundVars>>
    /\ UNCHANGED gridVars

\* get_player_names: the second prompt, in two-player mode.
PlayerTwoName(line) ==
    /\ pc = "rps_name2"
    /\ inp' = line
    /\ player2_name' = Strip(line)
    /\ LET to == IF Lower(Strip(line)) \in menu_choices
                 THEN Enter(stack, <<"get_player_names:253">>, "rps_main")
                 ELSE [pc |-> "rps_names_enter", stack |-> stack]
       IN  pc' = to.pc /\ stack' = to.stack
    /\ UNCHANGED <<require_names, two_player_mode, has_names, player1_name,
                   roundVars>>
    /\ UNCHANGED gridVars

\* get_player_names: "Press Enter to continue...", has_names = True,
\* return True, and pre_game goes on to play_round.
NamesPressEnter(line) ==
    /\ pc = "rps_names_enter"
    /\ inp' = line
    /\ has_names' = TRUE
    /\ pc' = Unwind(stack, PY_TRUE).pc
    /\ stack' = Unwind(stack, PY_TRUE).stack
    /\ UNCHANGED <<require_names, two_player_mode, player1_name, player2_name,
                   roundVars>>
    /\ UNCHANGED gridVars

\* play_round: get_player_choice(self.player1_name), one pass of its loop.
PlayerOneChoice(line) ==
    /\ pc = "rps_choice1"
    /\ inp' = line
    /\ LET choice == Lower(Strip(line))
           to == IF IsValidChoice(choice)
                 THEN Unwind(stack, valid_choices(choice))
                 ELSE IF choice \in menu_choices
                 THEN Enter(stack, <<"get_player_choice:284">>, "rps_main")
                 ELSE [pc |-> "rps_choice1", stack |-> stack]
       IN  /\ pc' = to.pc
           /\ stack' = to.stack
           /\ player1_choice' = IF IsValidChoice(choice)
                                THEN valid_choices(choice)
                                ELSE player1_choice
    /\ UNCHANGED <<settingVars, scores, player2_choice, outcome>>
    /\ UNCHANGED gridVars

\* play_round once player 2's choice is c2: verdict, score and
\* print_scores, up to "Press Enter to continue...".
ResolveRound(c2) ==
    /\ scores["Player 1"] < MaxScore
    /\ scores["Player 2"] < MaxScore
    /\ player2_choice' = c2
    /\ outcome' = RoundOutcome(player1_choice, c2)
    /\ scores' = ScoresAfter(scores, RoundOutcome(player1_choice, c2))
    /\ UNCHANGED <<settingVars, player1_choice>>

\* play_round: get_player_choice(self.player2_name), one pass of its loop.
PlayerTwoChoice(line) ==
    /\ pc = "rps_choice2"
    /\ inp' = line
    /\ LET choice == Lower(Strip(line))
       IN  IF IsValidChoice(choice)
           THEN /\ ResolveRound(valid_choices(choice))
                /\ pc' = Unwind(stack, valid_choices(choice)).pc
                /\ stack' = Unwind(stack, valid_choices(choice)).stack
           ELSE /\ LET to == IF choice \in menu_choices
                             THEN Enter(stack, <<"get_player_choice:284">>,
                                        "rps_main")
                             ELSE [pc |-> "rps_choice2", stack |-> stack]
                   IN  pc' = to.pc /\ stack' = to.stack
                /\ UNCHANGED <<settingVars, roundVars>>
    /\ UNCHANGED gridVars

\* play_round: random.choice([ROCK, PAPER, SCISSORS]) in one-player mode.
BotChoice ==
    /\ pc = "rps_bot"
    /\ \E c2 \in Choices : ResolveRound(c2)
    /\ pc' = "rps_round_enter"
    /\ UNCHANGED <<inp, stack, gridVars>>

\* play_round: "Press Enter to continue...", then after_game_menu().
RoundPressEnter(line) ==
    /\ pc = "rps_round_enter"
    /\ inp' = line
    /\ pc' = Enter(stack, <<"play_round:326">>, "rps_after").pc
    /\ stack' = Enter(stack, <<"play_round:326">>, "rps_after").stack
    /\ player1_choice' = NONE
    /\ player2_choice' = NONE
    /\ outcome' = NONE
    /\ UNCHANGED <<settingVars, scores>>
    /\ UNCHANGED gridVars

\* after_game_menu
AfterGameMenu(line) ==
    /\ pc = "rps_after"
    /\ inp' = line
    /\ LET choice == Lower(Strip(line))
           to == IF choice \in PlayAgainWords
                 THEN Enter(stack, <<"after_game_menu:347", "play_round:294">>,
                            "rps_choice1")
                 ELSE IF choice \in GameMenuWords
                 THEN Enter(stack, <<"after_game_menu:349">>, "rps_main")
                 ELSE IF choice \in BackWords
                 THEN Unwind(stack, NONE)
                 ELSE Enter(stack, <<"after_game_menu:354">>, "rps_after")
       IN  pc' = to.pc /\ stack' = to.stack
    /\ UNCHANGED <<gridVars, settingVars, roundVars>>

\* The wrong toggle: has_names is cleared only when names become required.
NamesKnownAfterToggle_keeps(required_now) ==
    IF required_now THEN FALSE ELSE has_names

\* settings_menu option 1: has_names after require_names became
\* required_now (line 371).
NamesKnownAfterToggle(required_now) == FALSE

\* The wrong default: "Player 2" whenever two-player mode is on.
DefaultSecondName_mode_only(two_players, names_required) ==
    IF two_players THEN PLAYER_2 ELSE THE_BOT

\* settings_menu option 2: player2_name for the new mode (line 375).
DefaultSecondName(two_players, names_required) ==
    IF two_players /\ ~names_required THEN PLAYER_2 ELSE THE_BOT

\* settings_menu
SettingsMenu(line) ==
    /\ pc = "rps_settings"
    /\ inp' = line
    /\ LET choice == Lower(Strip(line))
           to == IF choice \in RequireNamesWords
                 THEN Enter(stack, <<"settings_menu:self">>, "rps_settings")
                 ELSE IF choice \in TwoPlayerWords
                 THEN Enter(stack, <<"settings_menu:self">>, "rps_settings")
                 ELSE IF choice \in ResetWords
                 THEN Enter(stack, <<"settings_menu:self">>, "rps_settings")
                 ELSE IF choice \in SettingsBackWords
                 THEN Enter(stack, <<"settings_menu:381">>, "rps_main")
                 ELSE Enter(stack, <<"settings_menu:self">>, "rps_settings")
       IN  /\ pc' = to.pc
           /\ stack' = to.stack
           /\ IF choice \in RequireNamesWords
              THEN /\ require_names' = ~require_names
                   /\ has_names' = NamesKnownAfterToggle(~require_names)
                   /\ UNCHANGED <<two_player_mode, player1_name,
                                  player2_name>>
              ELSE IF choice \in TwoPlayerWords
              THEN /\ two_player_mode' = ~two_player_mode
                   /\ player2_name' =
                        DefaultSecondName(~two_player_mode, require_names)
                   /\ UNCHANGED <<require_names, has_names, player1_name>>
              ELSE IF choice \in ResetWords
              THEN /\ require_names' = reset_settings.require_names
                   /\ two_player_mode' = reset_settings.two_player_mode
                   /\ has_names' = reset_settings.has_names
                   /\ player1_name' = reset_settings.player1_name
                   /\ player2_name' = reset_settings.player2_name
              ELSE UNCHANGED settingVars
    /\ UNCHANGED roundVars
    /\ UNCHANGED gridVars

ChoiceNext ==
    \/ \E line \in LauncherInputs :
         \/ RunRockPaperScissors(line)
         \/ RunOtherGame(line, <<"2">>)
         \/ QuitSuite(line)
         \/ InvalidOption(line)
    \/ \E line \in {<<>>} : PressEnter(line)
    \/ \E line \in MainMenuInputs : MainMenu(line)
    \/ \E line \in NameInputs : PlayerOneName(line)
    \/ \E line \in NameInputs : PlayerTwoName(line)
    \/ \E line \in {<<>>} : NamesPressEnter(line)
    \/ \E line \in ChoiceInputs : PlayerOneChoice(line)
    \/ \E line \in ChoiceInputs : PlayerTwoChoice(line)
    \/ BotChoice
    \/ \E line \in {<<>>} : RoundPressEnter(line)
    \/ \E line \in AfterGameInputs : AfterGameMenu(line)
    \/ \E line \in SettingsInputs : SettingsMenu(line)

SpecChoice == Init /\ [][ChoiceNext]_vars

-----------------------------------------------------------------------------
(* check_win on its own: every board whose cells hold their label or a     *)
(* mark, with available_moves the labels still shown, is evaluated once.   *)

Unmarked == "-"

\* The board on which position i shows marking[i], or its label.
BoardOf(marking) ==
    [r \in Rows |-> [c \in Cols |->
        IF marking[3 * r + c + 1] = Unmarked
        THEN Str(3 * r + c + 1)
        ELSE marking[3 * r + c + 1]]]

\* The positions left in available_moves, in the list's order.
MovesOf(marking) ==
    LET Open(i) == marking[i] = Unmarked
    IN  SelectSeq(AllMoves, Open)

EvalInit ==
    /\ pc = "eval"
    /\ inp = NoInput
    /\ \E marking \in [1..9 -> Marks \cup {Unmarked}] :
         /\ board = BoardOf(marking)
         /\ available_moves = MovesOf(marking)
    /\ current_player = PLAYER_X
    /\ ai_mode = FALSE
    /\ result = NONE
    /\ ai_move = 0
    /\ placed = <<>>
    /\ started_fresh = FALSE
    /\ ChoiceInit

\* result = self.check_win()
Evaluate ==
    /\ pc = "eval"
    /\ result' = check_win(board, available_moves)
    /\ pc' = "evaluated"
    /\ UNCHANGED <<inp, board, available_moves, current_player, ai_mode,
                   ai_move, placed, started_fresh>>
    /\ UNCHANGED choiceVars

SpecEval == EvalInit /\ [][Evaluate]_vars

-----------------------------------------------------------------------------
(* Properties                                                              *)

\* The 8 lines, each as its three (row, col) cells.
WinLines ==
    { <<<<r, 0>>, <<r, 1>>, <<r, 2>>>> : r \in Rows } \cup
    { <<<<0, c>>, <<1, c>>, <<2, c>>>> : c \in Cols } \cup
    { <<<<0, 0>>, <<1, 1>>, <<2, 2>>>>, <<<<0, 2>>, <<1, 1>>, <<2, 0>>>> }

LineHolds(b, line, m) == \A i \in 1..3 : b[line[i][1]][line[i][2]] = m

LineComplete(b, line) == \E m \in Marks : LineHolds(b, line, m)

AntiDiagonal == <<<<0, 2>>, <<1, 1>>, <<2, 0>>>>

Opponent(m) == IF m = PLAYER_X THEN PLAYER_O ELSE PLAYER_X

\* The number of cells that hold a mark.
MarkedCells ==
    Cardinality({ rc \in Rows \X Cols : board[rc[1]][rc[2]] \in Marks })

\* C1: on a board where the three cells of one of the 8 lines hold the same
\* mark m and no other line is complete, check_win returns m.
C1_LineWins ==
    pc = "evaluated" =>
        \A line \in WinLines : \A m \in Marks :
            ( /\ LineHolds(board, line, m)
              /\ \A other \in WinLines \ {line} : ~LineComplete(board, other) )
            => result = m

C1_Witness ==
    /\ pc = "evaluated"
    /\ LineHolds(board, AntiDiagonal, PLAYER_O)
    /\ \A other \in WinLines \ {AntiDiagonal} : ~LineComplete(board, other)
    /\ result = PLAYER_O

\* C2: with no complete line check_win returns tie exactly when
\* available_moves is empty and None exactly when it is not; with a complete
\* line on a full board it returns a mark, not tie.
C2_TieOrUndecided ==
    pc = "evaluated" =>
        /\ (\A line \in WinLines : ~LineComplete(board, line)) =>
              /\ (result = TIE_RESULT <=> Len(available_moves) = 0)
              /\ (result = NONE <=> Len(available_moves) > 0)
        /\ ( /\ \E line \in WinLines : LineComplete(board, line)
             /\ Len(available_moves) = 0 )
           => result \in Marks

C2_Witness ==
    /\ pc = "evaluated"
    /\ \A line \in WinLines : ~LineComplete(board, line)
    /\ Len(available_moves) = 0
    /\ MarkedCells = 9
    /\ result = TIE_RESULT

\* C3: at the first move prompt of every session started by play() the
\* board shows the labels 1..9, every move is available and X is to move.
C3_FreshAtSessionStart ==
    (pc = "ttt_move" /\ placed = <<>> /\ result = NONE) => IsFresh

\* C4: when a decided game is followed by an accepted rematch, the next move
\* prompt sees the reset board, all moves, X to move, and the same ai_mode.
C4_RematchResets ==
    [][ (pc = "ttt_again" /\ pc' = "ttt_move")
        => (IsFresh' /\ ai_mode' = ai_mode) ]_vars

\* A rematch accepted after the automated player's deciding placement.
C4_Witness ==
    /\ pc = "ttt_move"
    /\ IsFresh
    /\ placed = <<>>
    /\ result = PLAYER_O
    /\ ai_mode
    /\ ai_move # 0

\* C5: every cell holds its own label or a mark, it holds its label n
\* exactly when n is in available_moves, and marked cells plus the length of
\* available_moves make 9.
C5_BoardMovesInvariant ==
    /\ \A r \in Rows : \A c \in Cols :
         LET n == 3 * r + c + 1
         IN  /\ board[r][c] \in Marks \cup {Str(n)}
             /\ (board[r][c] = Str(n) <=> InList(n, available_moves))
    /\ MarkedCells + Len(available_moves) = 9

C5_Witness ==
    /\ pc = "ttt_move"
    /\ ai_mode
    /\ Len(placed) = 6
    /\ Len(available_moves) = 3

\* C6: a human entry n that is in available_moves writes the current
\* player's mark at row (n-1) div 3, column (n-1) mod 3, removes n from
\* available_moves (one element fewer) and changes no other cell.
C6_ValidPlacement ==
    [][ ( /\ pc = "ttt_move"
          /\ IsIntLiteral(inp')
          /\ InList(IntOf(inp'), available_moves) )
        => LET n == IntOf(inp')
           IN  /\ board'[(n - 1) \div 3][(n - 1) % 3] = current_player
               /\ ~InList(n, available_moves')
               /\ Len(available_moves') = Len(available_moves) - 1
               /\ \A k \in 1..9 : k # n =>
                    /\ board'[(k - 1) \div 3][(k - 1) % 3]
                         = board[(k - 1) \div 3][(k - 1) % 3]
                    /\ InList(k, available_moves')
                         <=> InList(k, available_moves) ]_vars

\* X has just been placed at position 5 of the reset board.
C6_Witness ==
    /\ inp = <<"5">>
    /\ Len(placed) = 1
    /\ started_fresh
    /\ board[1] = [c \in Cols |-> IF c = 1 THEN PLAYER_X ELSE Str(4 + c)]
    /\ board[0] = create_board[0]
    /\ available_moves = <<1, 2, 3, 4, 6, 7, 8, 9>>

\* C7: an entry that is no integer, or an integer not in available_moves,
\* leaves board, available_moves and current_player as they were and the
\* same move prompt is shown again.
C7_InvalidMoveNoChange ==
    [][ ( /\ pc = "ttt_move"
          /\ ~(IsIntLiteral(inp') /\ InList(IntOf(inp'), available_moves)) )
        => /\ board' = board
           /\ available_moves' = available_moves
           /\ current_player' = current_player
           /\ placed' = placed
           /\ pc' = "ttt_move" ]_vars

\* Mid-game, the move prompt is shown again after a rejected entry.
C7_Witness ==
    /\ pc = "ttt_move"
    /\ inp \in {<<"x">>, <<"1", "0">>, <<"-", "1">>}
    /\ Len(placed) = 3
    /\ current_player = PLAYER_O

\* C8: in a game begun on the reset board, the k-th placement writes X when
\* k is odd and O when k is even.
C8_Alternation ==
    started_fresh =>
        \A k \in 1..Len(placed) :
            placed[k] = IF k % 2 = 1 THEN PLAYER_X ELSE PLAYER_O

C8_Witness ==
    /\ started_fresh
    /\ ai_mode
    /\ Len(placed) = 9
    /\ result = TIE_RESULT

\* C9 as stated: whenever input is next requested after a placement,
\* current_player is the opposite of the mark just placed, the deciding
\* placement included.
C9_FlipsEveryPlacement ==
    (pc \in {"ttt_move", "ttt_again"} /\ Len(placed) > 0)
        => current_player = Opponent(placed[Len(placed)])

\* C9 amended: after a placement that leaves the game undecided
\* current_player is the opposite of the mark just placed; after the
\* placement that decides the game it still is the mark just placed.
C9_FlipsUnlessDecided ==
    /\ (pc \in {"ttt_move", "ttt_ai"} /\ Len(placed) > 0)
          => current_player = Opponent(placed[Len(placed)])
    /\ pc = "ttt_again"
          => /\ Len(placed) > 0
             /\ current_player = placed[Len(placed)]

C9_Witness ==
    /\ pc = "ttt_again"
    /\ ai_mode
    /\ ai_move # 0
    /\ result = PLAYER_O
    /\ current_player = PLAYER_O

\* C10: for every pair of choices the round's verdict is tie exactly when
\* they are equal, participant 1 exactly for (rock, scissors),
\* (scissors, paper) and (paper, rock), participant 2 otherwise; the
\* winner's score grows by 1 and nothing else in scores changes.
C10_ResolveRound ==
    [][ (pc \in {"rps_choice2", "rps_bot"} /\ pc' = "rps_round_enter")
        => LET c1 == player1_choice'
               c2 == player2_choice'
               p1 == scores'["Player 1"] - scores["Player 1"]
               p2 == scores'["Player 2"] - scores["Player 2"]
               P1Beats == \/ (c1 = ROCK /\ c2 = SCISSORS)
                          \/ (c1 = SCISSORS /\ c2 = PAPER)
                          \/ (c1 = PAPER /\ c2 = ROCK)
           IN  /\ c1 \in Choices /\ c2 \in Choices
               /\ outcome' \in {"tie", "player1 wins", "player2 wins"}
               /\ outcome' = "tie" <=> c1 = c2
               /\ outcome' = "player1 wins" <=> P1Beats
               /\ outcome' = "player2 wins" <=> (c1 # c2 /\ ~P1Beats)
               /\ outcome' = "tie" => (p1 = 0 /\ p2 = 0)
               /\ outcome' = "player1 wins" => (p1 = 1 /\ p2 = 0)
               /\ outcome' = "player2 wins" => (p1 = 0 /\ p2 = 1)
               /\ DOMAIN scores' = ScoreKeys ]_vars

\* Rock against scissors in a two-player round: participant 1 scores.
C10_Witness ==
    /\ pc = "rps_round_enter"
    /\ two_player_mode
    /\ player1_choice = ROCK
    /\ player2_choice = SCISSORS
    /\ outcome = "player1 wins"
    /\ scores["Player 1"] = 1
    /\ scores["Player 2"] = 0

-----------------------------------------------------------------------------
(* RockPaperScissorsGame: the menus                                        *)

\* The prompts of RockPaperScissorsGame that read a token.
TokenPrompts ==
    {"rps_main", "rps_settings", "rps_name1", "rps_name2", "rps_choice1",
     "rps_choice2", "rps_after"}

\* The line just read at a token prompt is "menu" or "main menu".
EscapeTyped ==
    /\ pc \in TokenPrompts
    /\ Lower(Strip(inp')) \in menu_choices

\* C11: at every prompt of the choice game (main menu, settings menu, name
\* acquisition, either participant's choice prompt, post-round menu) the
\* token "menu" or "main menu" makes the game's main menu the next thing
\* presented.
C11_EscapeToMainMenu ==
    [][ EscapeTyped => pc' = "rps_main" ]_vars

\* The call suspended at stack[i] is still suspended after the step.
FrameKept(i) ==
    /\ Len(stack') >= i
    /\ SubSeq(stack', 1, i) = SubSeq(stack, 1, i)

\* The call suspended at stack[i] resumes in the step: its callee returned
\* (an exception that ends the program is not a return).
FrameResumes(i) == ~FrameKept(i) /\ pc' # "crashed"

\* The prompts and pauses play_round reaches after its choice prompts.
RoundResolution == {"rps_bot", "rps_round_enter", "rps_after"}

\* C12: a round whose choice prompt (participant 1's, or participant 2's
\* after participant 1 has chosen) received "menu" or "main menu" is never
\* resolved: neither the step that reads the token nor the step in which the
\* nested main_menu() it triggered returns changes a score, shows an outcome
\* or goes on to a further prompt of that round or to the post-round menu.
C12_EscapeDiscardsRound ==
    [][ /\ (EscapeTyped /\ pc \in {"rps_choice1", "rps_choice2"})
           => /\ scores' = scores
              /\ outcome' = outcome
              /\ pc' \notin RoundResolution \cup {"rps_choice1", "rps_choice2"}
        /\ \A i \in 1..Len(stack) :
             (stack[i] = "get_player_choice:284" /\ FrameResumes(i))
             => /\ i > 1
                /\ stack[i - 1] \in {"play_round:294", "play_round:301"}
                /\ ~FrameKept(i - 1)
                /\ scores' = scores
                /\ outcome' = outcome
                /\ pc' \notin RoundResolution \cup {"rps_choice1", "rps_choice2"}
      ]_vars

\* Participant 2 typed the token after participant 1 chose rock; the nested
\* main menu has returned and play() with it: no score, no outcome.
C12_Witness ==
    /\ pc = "launcher"
    /\ two_player_mode
    /\ player1_choice = ROCK
    /\ player2_choice = NONE
    /\ outcome = NONE
    /\ scores = [k \in ScoreKeys |-> 0]

\* The step is settings_menu reading the option "Reset to Default Settings".
ResetChosen ==
    /\ pc = "rps_settings"
    /\ Lower(Strip(inp')) \in ResetWords

\* The step is play_round resolving a round.
RoundResolved ==
    /\ pc \in {"rps_choice2", "rps_bot"}
    /\ pc' = "rps_round_enter"

\* C13 as stated: the scores change only by the resolver's +1 and by the
\* settings reset option, which sets both scores to 0.
C13_ResetClearsScores ==
    [][ /\ ResetChosen => scores' = [k \in ScoreKeys |-> 0]
        /\ (scores' # scores /\ ~ResetChosen)
              => /\ RoundResolved
                 /\ \E k \in ScoreKeys :
                      scores' = [scores EXCEPT ![k] = @ + 1] ]_vars

\* C13 amended: each score is a non-negative integer that changes only by
\* the resolver's +1 to one of the two scores; every other operation, the
\* settings reset option included, leaves both scores as they are.
C13_ScoresOnlyGrow ==
    [][ /\ \A k \in ScoreKeys : scores[k] \in Nat /\ scores'[k] \in Nat
        /\ scores' # scores
              => /\ RoundResolved
                 /\ \E k \in ScoreKeys :
                      scores' = [scores EXCEPT ![k] = @ + 1]
        /\ ResetChosen => scores' = scores ]_vars

\* The settings were just reset while participant 1 had a point.
C13_Witness ==
    /\ pc = "rps_settings"
    /\ Lower(Strip(inp)) \in ResetWords
    /\ stack[Len(stack)] = "settings_menu:self"
    /\ scores["Player 1"] = 1
    /\ scores["Player 2"] = 0

\* The line just read as a name is "menu" or "main menu" in any case.
NameEscapeTyped ==
    /\ pc \in {"rps_name1", "rps_name2"}
    /\ Lower(Strip(inp')) \in menu_choices

\* C14: a name equal to the escape token aborts get_player_names: the main
\* menu is presented with has_names still false, and when that main menu
\* has returned the aborted New Game request starts no round and has_names
\* is as the nested visit left it.
C14_NamesAbort ==
    [][ /\ NameEscapeTyped
           => /\ pc' = "rps_main"
              /\ has_names' = FALSE
              /\ Len(stack') = Len(stack) + 1
              /\ FrameKept(Len(stack))
        /\ \A i \in 1..Len(stack) :
             (/\ stack[i] \in {"get_player_names:247", "get_player_names:253"}
              /\ FrameResumes(i))
             => /\ i > 1
                /\ stack[i - 1] = "pre_game:267"
                /\ ~FrameKept(i - 1)
                /\ has_names' = has_names
                /\ pc' \notin RoundResolution \cup {"rps_choice1", "rps_choice2"}
      ]_vars

\* The line just read at main_menu or after_game_menu is its third option,
\* "Back to Main Menu".
ExitChosen ==
    /\ pc \in {"rps_main", "rps_after"}
    /\ Lower(Strip(inp')) \in BackWords

\* C15: the exit option at the game's main menu or at the post-round menu
\* makes play() return to the launcher with no further prompt of the game,
\* however many calls are suspended: all of them return.
C15_ExitUnwinds ==
    [][ ExitChosen => (pc' = "launcher" /\ stack' = <<>>) ]_vars

\* play() has returned from the post-round menu of a round participant 1 won.
C15_Witness ==
    /\ pc = "launcher"
    /\ stack = <<>>
    /\ Lower(Strip(inp)) = <<"m", "a", "i", "n", " ", "m", "e", "n", "u">>
    /\ scores["Player 1"] = 1
    /\ outcome = NONE

\* The line just read matches none of the options of the prompt it was
\* typed at: main menu, settings menu, post-round menu or a choice prompt.
InvalidTyped ==
    LET choice == Lower(Strip(inp'))
    IN  \/ /\ pc = "rps_main"
           /\ choice \notin NewGameWords \cup SettingsWords \cup BackWords
        \/ /\ pc = "rps_settings"
           /\ choice \notin RequireNamesWords \cup TwoPlayerWords
                            \cup ResetWords \cup SettingsBackWords
        \/ /\ pc = "rps_after"
           /\ choice \notin PlayAgainWords \cup GameMenuWords \cup BackWords
        \/ /\ pc \in {"rps_choice1", "rps_choice2"}
           /\ ~IsValidChoice(choice)
           /\ choice \notin menu_choices

\* C16: an unrecognized token at the main menu, the settings menu, the
\* post-round menu or a choice prompt leaves the settings, the names and the
\* scores unchanged and presents the same prompt again; in particular it
\* never ends the program with an error.
C16_InvalidInputRecovers ==
    [][ InvalidTyped
        => /\ UNCHANGED <<settingVars, scores>>
           /\ pc' = pc
           /\ pc' # "crashed" ]_vars

\* The line just read at settings_menu is its option 1, "Require Names".
RequireNamesChosen ==
    /\ pc = "rps_settings"
    /\ Lower(Strip(inp')) \in RequireNamesWords

\* C17: the "Require Names" option of the settings menu negates
\* require_names and leaves has_names false, whatever both were before.
C17_ToggleClearsNames ==
    [][ RequireNamesChosen
        => /\ require_names' = ~require_names
           /\ has_names' = FALSE ]_vars

\* Names had been acquired ("Bo") while they were required; the option was
\* then taken: they are no longer required and has_names is false.
C17_Witness ==
    /\ pc = "rps_settings"
    /\ Lower(Strip(inp)) \in RequireNamesWords
    /\ player1_name = <<"B", "o">>
    /\ ~require_names
    /\ ~has_names

\* The line just read at settings_menu is its option 2, "Two Player Mode".
TwoPlayerChosen ==
    /\ pc = "rps_settings"
    /\ Lower(Strip(inp')) \in TwoPlayerWords

\* C18: the "Two Player Mode" option negates two_player_mode and sets
\* participant 2's name to "Player 2" if the new mode is on and names are
\* not required, to "The Bot" otherwise; require_names, has_names,
\* participant 1's name and both scores stay as they were.
C18_TwoPlayerToggle ==
    [][ TwoPlayerChosen
        => /\ two_player_mode' = ~two_player_mode
           /\ (two_player_mode' /\ ~require_names) => player2_name' = PLAYER_2
           /\ ~(two_player_mode' /\ ~require_names) => player2_name' = THE_BOT
           /\ UNCHANGED <<require_names, has_names, player1_name, scores>>
      ]_vars

\* Two-player mode was just switched on with names not required, while
\* participant 1 had a point.
C18_Witness ==
    /\ pc = "rps_settings"
    /\ Lower(Strip(inp)) \in TwoPlayerWords
    /\ two_player_mode
    /\ ~require_names
    /\ player2_name = PLAYER_2
    /\ scores["Player 1"] = 1

-----------------------------------------------------------------------------
(* TicTacToeGame: the automated player, progress                           *)

\* C19: get_ai_move is called only in AI mode, only with a non-empty
\* available_moves, and only right after a human placement that left the
\* game undecided and was followed by switch_player; it writes
\* current_player's mark at a position taken from available_moves and
\* removes exactly that position, so it always has a move to make.
C19_AutomatedMove ==
    [][ /\ pc' = "ttt_ai"
           => /\ pc = "ttt_move"
              /\ ai_mode'
              /\ Len(available_moves') > 0
              /\ placed' = Append(placed, current_player)
              /\ Len(available_moves') = Len(available_moves) - 1
              /\ result' = NONE
              /\ current_player' = Opponent(current_player)
        /\ pc = "ttt_ai"
           => /\ InList(ai_move', available_moves)
              /\ board[RowOf(ai_move')][ColOf(ai_move')] = Str(ai_move')
              /\ board'[RowOf(ai_move')][ColOf(ai_move')] = current_player
              /\ \A r \in Rows, c \in Cols :
                   <<r, c>> # <<RowOf(ai_move'), ColOf(ai_move')>>
                   => board'[r][c] = board[r][c]
              /\ Len(available_moves') = Len(available_moves) - 1
              /\ \A k \in 1..9 :
                   InList(k, available_moves')
                   <=> (InList(k, available_moves) /\ k # ai_move')
              /\ placed' = Append(placed, current_player)
              /\ pc' \in {"ttt_move", "ttt_again"}
      ]_vars

\* The automated player has answered the human's first move of a session.
C19_Witness ==
    /\ pc = "ttt_move"
    /\ ai_mode
    /\ ai_move # 0
    /\ placed = <<PLAYER_X, PLAYER_O>>
    /\ board[RowOf(ai_move)][ColOf(ai_move)] = PLAYER_O
    /\ ~InList(ai_move, available_moves)
    /\ Len(available_moves) = 7

\* C20: whenever the human is asked for a move, available_moves is not
\* empty, so some input is accepted and the session can go on to its end;
\* also in a session entered after an earlier one ended in a tie with the
\* rematch declined.
C20_MovePromptHasMoves ==
    pc = "ttt_move" => Len(available_moves) > 0

-----------------------------------------------------------------------------
(* RockPaperScissorsGame: participant 2's name                             *)

\* C21: whenever a round is being played in two-player mode with names
\* required, participant 2 has entered a name: player2_name is not the
\* one-player default "The Bot".
C21_SecondPlayerNamed ==
    (/\ pc \in {"rps_choice1", "rps_choice2"}
     /\ two_player_mode
     /\ require_names)
    => player2_name # THE_BOT

\* C22: as long as no name has been entered (both names are defaults),
\* participant 2's name is "Player 2" exactly when two-player mode is on
\* and names are not required, and "The Bot" otherwise, in whatever order
\* the two flags were toggled.
C22_DefaultNameFromFlags ==
    (/\ player1_name = PLAYER_1
     /\ player2_name \in {PLAYER_2, THE_BOT})
    => (player2_name = PLAYER_2 <=> (two_player_mode /\ ~require_names))

-----------------------------------------------------------------------------
(* TicTacToeGame: the announced winner                                     *)

\* The step is a placement: get_user_move or get_ai_move wrote a mark.
Placement ==
    /\ pc \in {"ttt_move", "ttt_ai"}
    /\ board' # board

\* C23: whenever check_win returns a mark after a placement, it is the
\* mark just placed, current_player's at that moment; nobody is announced
\* as winner on the other player's placement, also in a session that play()
\* starts on the board an earlier session left.
C23_WinnerIsLastPlacer ==
    [][ (Placement /\ result' \in Marks)
        => /\ result' = current_player
           /\ \E r \in Rows, c \in Cols :
                /\ board[r][c] \notin Marks
                /\ board'[r][c] = result'
           /\ pc' = "ttt_again" ]_vars

\* O is announced on O's own placement, the first of a session that began
\* on the board of an earlier one.
C23_Witness ==
    /\ pc = "ttt_again"
    /\ ~started_fresh
    /\ placed = <<PLAYER_O>>
    /\ result = PLAYER_O
    /\ current_player = PLAYER_O

====
